---------------------------- MODULE Spec2Model ----------------------------
(***************************************************************************)
(* Model of week_07_timeseries/helpers_timeseries.py: the stationarity     *)
(* report (qcd_variance, p_values, test_stationarity), the imputer         *)
(* (clean_temp), the rolling-mean window (rolling_mean_plot) and the       *)
(* seasonal feature generator (calc_seas).                                 *)
(*                                                                         *)
(* The functions are stateless; the state of the model is, per function,  *)
(* the arguments of its latest call and what the call produced (value      *)
(* returned, exception raised, lines printed, helper calls made).          *)
(*                                                                         *)
(* Number representation.  Floats that the code rounds to 6 decimals       *)
(* (QCD, p-values) are integers counting millionths.  A float that can be  *)
(* NaN is a record [nan, v].  Temperatures count quarters of a degree.     *)
(***************************************************************************)
EXTENDS Integers, Sequences, FiniteSets

VARIABLES
    st_series,      \* test_stationarity: argument `series`
    st_window,      \* test_stationarity: argument `qcd_window`
    st_qcd,         \* test_stationarity: local `qcd`
    st_trace,       \* test_stationarity: helper calls and printed lines, in order
    st_done,        \* a call of test_stationarity has returned
    ct_dataframe,   \* clean_temp: argument `dataframe` (sequence of rows)
    ct_series,      \* clean_temp: argument `series` (the record)
    ct_result,      \* clean_temp: outcome of the call
    rm_years,       \* rolling_mean_plot: argument `years`
    rm_window,      \* rolling_mean_plot: local `window`
    cs_dataframe,   \* calc_seas: the caller's table, given to the first call
    cs_given,       \* calc_seas: argument `dataframe` of each call, as passed
    cs_after,       \* calc_seas: the same tables, as the caller finds them after the call
    cs_frequency,   \* calc_seas: argument `frequency` of each call
    cs_result       \* calc_seas: outcome of each call

vars == <<st_series, st_window, st_qcd, st_trace, st_done,
          ct_dataframe, ct_series, ct_result,
          rm_years, rm_window,
          cs_dataframe, cs_given, cs_after, cs_frequency, cs_result>>

st_vars == <<st_series, st_window, st_qcd, st_trace, st_done>>
ct_vars == <<ct_dataframe, ct_series, ct_result>>
rm_vars == <<rm_years, rm_window>>
cs_vars == <<cs_dataframe, cs_given, cs_after, cs_frequency, cs_result>>

---------------------------------------------------------------------------
(* Generic helpers *)

Range(s) == {s[i] : i \in DOMAIN s}

RECURSIVE SumSeq(_)
SumSeq(s) == IF s = <<>> THEN 0 ELSE Head(s) + SumSeq(Tail(s))

SeqsUpTo(S, lo, hi) == UNION {[1..n -> S] : n \in lo..hi}

\* A float: either NaN or a number v (unit fixed by the use).
Num(x) == [nan |-> FALSE, v |-> x]
NaN == [nan |-> TRUE, v |-> 0]

---------------------------------------------------------------------------
(* qcd_variance *)

\* Upper bound on the length of the series passed to test_stationarity.
MaxSeriesLen == 5

SeriesVals == {0, 1, 2, 3}
Windows == {2, 3}

\* series.rolling(window).var().dropna(): the sample variance (ddof = 1) of
\* every full window, here multiplied by window * (window - 1) so that it
\* stays an integer; the QCD is a ratio and does not see the factor.
RollingVar(series, window) ==
    [k \in 1..(Len(series) - window + 1) |->
        LET w == SubSeq(series, k, k + window - 1)
        IN  window * SumSeq([i \in 1..window |-> w[i] * w[i]])
              - SumSeq(w) * SumSeq(w)]

\* The sequence in ascending order (np.percentile sorts its argument).
RECURSIVE Insert(_, _)
Insert(x, s) ==
    IF s = <<>> THEN <<x>>
    ELSE IF x <= Head(s) THEN <<x>> \o s
    ELSE <<Head(s)>> \o Insert(x, Tail(s))

RECURSIVE Sorted(_)
Sorted(s) == IF s = <<>> THEN <<>> ELSE Insert(Head(s), Sorted(Tail(s)))

\* np.percentile(a, pct, method="midpoint"), doubled: the virtual index is
\* (n - 1) * pct / 100 (0-based); an integral index selects that element,
\* a fractional one the midpoint of its two neighbours.
PercentileMidpointX2(a, pct) ==
    LET s  == Sorted(a)
        n  == Len(s)
        lo == ((n - 1) * pct) \div 100
        hi == IF ((n - 1) * pct) % 100 = 0 THEN lo ELSE lo + 1
    IN  s[lo + 1] + s[hi + 1]

\* round(x, 6) of the quotient num / den (den > 0, num >= 0), in millionths,
\* ties to even.
Round6(num, den) ==
    LET q == (num * 1000000) \div den
        r == (num * 1000000) % den
    IN  IF 2 * r > den \/ (2 * r = den /\ q % 2 = 1) THEN q + 1 ELSE q

QcdVariance(series, window) ==
    LET variances  == RollingVar(series, window)
        quartile_1 == PercentileMidpointX2(variances, 25)
        quartile_3 == PercentileMidpointX2(variances, 75)
    IN  IF quartile_3 + quartile_1 = 0
        THEN NaN          \* 0.0 / 0.0 on numpy floats
        ELSE Num(Round6(quartile_3 - quartile_1, quartile_3 + quartile_1))

---------------------------------------------------------------------------
(* p_values: the two tests are statsmodels'; their results are inputs *)

\* p-values in millionths, chosen around the thresholds of the table.
PAdf  == {0, 5000, 10000, 30000, 100000, 500000}
PKpss == {10000, 20000, 50000, 200000, 500000}

PValues == PAdf \X PKpss

---------------------------------------------------------------------------
(* test_stationarity *)

QcdLimit   == 500000    \* 0.50
AdfStrict  == 10000     \* 0.01
AdfLoose   == 100000    \* 0.1
KpssLimit  == 50000     \* 0.05

\* Variants with a plausible slip, used to test that the properties below
\* depend on the definitions they replace.
QcdTooHigh_Strict(qcd) == ~qcd.nan /\ qcd.v > QcdLimit
Rule1_Inclusive(p_adf, p_kpss) == p_adf <= AdfStrict /\ p_kpss >= KpssLimit
Rule3_AdfOnly(p_adf, p_kpss) == p_adf < AdfLoose

\* qcd >= 0.50; a comparison with NaN is false.
QcdTooHigh(qcd) == ~qcd.nan /\ qcd.v >= QcdLimit

Rule1(p_adf, p_kpss) == p_adf < AdfStrict /\ p_kpss >= KpssLimit
Rule2(p_adf, p_kpss) == p_adf >= AdfLoose /\ p_kpss < KpssLimit
Rule3(p_adf, p_kpss) == p_adf < AdfLoose /\ p_kpss < KpssLimit

Verdict(p_adf, p_kpss) ==
    IF Rule1(p_adf, p_kpss) THEN "Stationary or seasonal-stationary"
    ELSE IF Rule2(p_adf, p_kpss) THEN "Difference-stationary"
    ELSE IF Rule3(p_adf, p_kpss) THEN "Trend-stationary"
    ELSE "Non-stationary; no robust conclusions"

\* Entries of the trace: a helper call, or a printed line with the values
\* formatted into it.
Call(fn)           == [ev |-> "call", what |-> fn, args |-> <<>>]
Printed(text, args) == [ev |-> "print", what |-> text, args |-> args]

\* What test_stationarity does once qcd_variance has returned qcd; p is
\* the pair p_values returns if it is called.
StationarityTrace(qcd, p) ==
    IF QcdTooHigh(qcd)
    THEN << Call("qcd_variance"),
            Printed("Non-stationary: heteroscedastic (qcd = {})", <<qcd>>) >>
    ELSE << Call("qcd_variance"),
            Call("p_values"),
            Printed("p-values: {} (ADF), {} (KPSS)", <<Num(p[1]), Num(p[2])>>),
            Printed("Quartile coefficient of dispersion (QCD): {}", <<qcd>>),
            Printed(Verdict(p[1], p[2]), <<>>) >>

\* One call: the arguments were fixed when the call was made (Init); the
\* p-values are whatever the two statistical tests return.
TestStationarity ==
    /\ ~st_done
    /\ st_qcd' = QcdVariance(st_series, st_window)
    /\ \E p \in PValues : st_trace' = StationarityTrace(st_qcd', p)
    /\ st_done' = TRUE
    /\ UNCHANGED <<st_series, st_window, ct_vars, rm_vars, cs_vars>>

StInit ==
    /\ st_window \in Windows
    /\ st_series \in SeqsUpTo(SeriesVals, st_window, MaxSeriesLen)
    /\ st_qcd = NaN
    /\ st_trace = <<>>
    /\ st_done = FALSE

---------------------------------------------------------------------------
(* clean_temp *)

\* Upper bound on the number of rows of the table passed to clean_temp.
MaxRows == 2

Missing == 9            \* the quality flag of a missing value

Date(y, m, d) == [year |-> y, month |-> m, day |-> d]

IsLeap(y) == y % 4 = 0 /\ (y % 100 # 0 \/ y % 400 = 0)

\* date + relativedelta(years=n): the same day of the same month n years
\* on; 29 February becomes 28 February in a year that is not a leap year.
AddYears(date, n) ==
    LET y == date.year + n
    IN  Date(y, date.month,
             IF date.month = 2 /\ date.day = 29 /\ ~IsLeap(y) THEN 28
             ELSE date.day)

\* Temperatures count quarters of a degree (floats represent them exactly):
\* -1.5, 10.0 and 10.75 degrees, or NaN.
RowTemps == {NaN, Num(0 - 6), Num(40), Num(43)}

\* Dates of the records under test and of the rows of the table: for each
\* record date there are rows 5 and 6 years away, rows on the date itself,
\* and rows a day off within the window.
RecordDates == {Date(2004, 2, 29), Date(2005, 2, 28)}
RowDates == {Date(1999, 2, 28), Date(2000, 2, 29), Date(2004, 2, 28),
             Date(2004, 2, 29), Date(2005, 2, 28), Date(2010, 2, 28)}

\* Rows flagged missing carry a value all the same (a placeholder).
Rows == {[date |-> d, mean_temp |-> t, quality |-> IF t = Num(43) THEN 9 ELSE 0] :
            d \in RowDates, t \in RowTemps}
Records == [date : RecordDates,
            mean_temp : {NaN, Num(0 - 6), Num(43)},
            quality : {0, 1, 9}]

\* list(range(-5, 0)) + list(range(1, 6))
ReferenceYears_WithZero == [i \in 1..11 |-> i - 6]
ReferenceYears == [i \in 1..10 |-> IF i <= 5 THEN i - 6 ELSE i - 5]

ReferenceDates(date) == {AddYears(date, ReferenceYears[i]) : i \in DOMAIN ReferenceYears}

\* int(x) for the float x = num / den (den > 0): truncation toward zero.
IntOf_Floor(num, den) == num \div den
IntOf(num, den) == IF num >= 0 THEN num \div den ELSE 0 - ((0 - num) \div den)

\* dataframe[dataframe["date"].isin(reference_dates)]["mean_temp"]
SelectedTemps(dataframe, reference_dates) ==
    LET keep(row) == row.date \in reference_dates
    IN  [i \in DOMAIN SelectSeq(dataframe, keep) |->
            SelectSeq(dataframe, keep)[i].mean_temp]

Outcome(st, val, e) == [status |-> st, value |-> val, exc |-> e]

\* Series.mean() skips NaN and is NaN for nothing left; int(NaN) raises
\* ValueError.  The value returned is in quarters of a degree.
MeanAsInt(temps) ==
    LET defined == SelectSeq(temps, LAMBDA t : ~t.nan)
        total   == SumSeq([i \in DOMAIN defined |-> defined[i].v])
    IN  IF defined = <<>>
        THEN Outcome("raised", NaN, "ValueError")
        ELSE Outcome("returned", Num(4 * IntOf(total, 4 * Len(defined))), "")

IsMissing_AnyFlag(series) == series.quality # 0
IsMissing(series) == series.quality = Missing

CleanTemp(dataframe, series) ==
    IF IsMissing(series)
    THEN MeanAsInt(SelectedTemps(dataframe, ReferenceDates(series.date)))
    ELSE Outcome("returned", series.mean_temp, "")

CleanTempCall ==
    /\ ct_result.status = "none"
    /\ ct_result' = CleanTemp(ct_dataframe, ct_series)
    /\ UNCHANGED <<ct_dataframe, ct_series, st_vars, rm_vars, cs_vars>>

CtInit ==
    /\ ct_dataframe \in SeqsUpTo(Rows, 0, MaxRows)
    /\ ct_series \in Records
    /\ ct_result = Outcome("none", NaN, "")

---------------------------------------------------------------------------
(* rolling_mean_plot *)

\* Upper bound on the number of years passed to rolling_mean_plot.
MaxYears == 60

\* window = int(years * 365.24), for a whole number of years.
RollingWindow_Rounded(years) == (years * 36524 + 50) \div 100
RollingWindow(years) == IntOf(years * 36524, 100)

RollingMeanPlot ==
    /\ rm_window = 0
    /\ rm_window' = RollingWindow(rm_years)
    /\ UNCHANGED <<rm_years, st_vars, ct_vars, cs_vars>>

RmInit ==
    /\ rm_years \in 1..MaxYears
    /\ rm_window = 0

---------------------------------------------------------------------------
(* calc_seas *)

\* Upper bounds on the length of a list of frequencies and on the number
\* of times the caller feeds the table returned back into calc_seas.
MaxFreqs == 2
MaxCalls == 2

\* A frequency is a fraction of a cycle per time step.
Frac(n, d) == [num |-> n, den |-> d]

\* Sine and cosine in thousandths.  The angle is reduced to an eighth of a
\* turn, as libm does, and the series is summed in fixed point.
SinSeries(x) ==     \* x in thousandths of a radian, 0 <= x <= pi/4
    LET x2 == (x * x) \div 1000
        x3 == (x2 * x) \div 1000
        x5 == (x3 * x2) \div 1000
        x7 == (x5 * x2) \div 1000
    IN  x - x3 \div 6 + x5 \div 120 - x7 \div 5040
CosSeries(x) ==
    LET x2 == (x * x) \div 1000
        x4 == (x2 * x2) \div 1000
        x6 == (x4 * x2) \div 1000
    IN  1000 - x2 \div 2 + x4 \div 24 - x6 \div 720

\* The sine of an angle given in ten-thousandths of a turn (0..9999).
SinOfTurn(a) ==
    LET q == a \div 2500
        r == a % 2500
        rad(u) == (u * 62832) \div 100000
        first(u) == IF u <= 1250 THEN SinSeries(rad(u))
                    ELSE CosSeries(rad(2500 - u))
    IN  CASE q = 0 -> first(r)
          [] q = 1 -> first(2500 - r)
          [] q = 2 -> 0 - first(r)
          [] q = 3 -> 0 - first(2500 - r)

\* The angle 2 * pi * freq * t in ten-thousandths of a turn.
TurnOf(freq, t) == (((freq.num * t) % freq.den) * 10000) \div freq.den

\* np.sin(2 * np.pi * freq * t) and np.cos(2 * np.pi * freq * t)
Sin(freq, t) == SinOfTurn(TurnOf(freq, t))
Cos(freq, t) == SinOfTurn((TurnOf(freq, t) + 2500) % 10000)

\* A table is a sequence of columns, each a name and one value per row.
Column(n, vals) == [name |-> n, values |-> vals]
Names(df) == [i \in DOMAIN df |-> df[i].name]
HasColumn(df, n) == \E i \in DOMAIN df : df[i].name = n
ColumnOf(df, n) == df[CHOOSE i \in DOMAIN df : df[i].name = n].values

\* df[name] = vals: replaces the values of the column of that name, or
\* appends a new column.
SetColumn(df, n, vals) ==
    IF HasColumn(df, n)
    THEN [i \in DOMAIN df |-> IF df[i].name = n THEN Column(n, vals) ELSE df[i]]
    ELSE Append(df, Column(n, vals))

Digits == <<"0", "1", "2", "3", "4", "5", "6", "7", "8", "9">>
\* f"sin_{i}" and f"cos_{i}", i counted from 0
SinName(i) == "sin_" \o Digits[i + 1]
CosName_AsSin(i) == "sin_" \o Digits[i + 1]
CosName(i) == "cos_" \o Digits[i + 1]

\* The argument `frequency`: left out, a float, a str, or a list of floats.
Omitted == [kind |-> "omitted", val |-> <<>>]
Float(f) == [kind |-> "float", val |-> <<f>>]
Str == [kind |-> "str", val |-> <<>>]
List(fs) == [kind |-> "list", val |-> fs]

\* frequency: float = 1 / 365.24
DefaultFrequency == Float(Frac(100, 36524))

\* The loop of calc_seas over frequencies[k..]: two columns per frequency.
RECURSIVE SeasLoop(_, _, _, _)
SeasLoop(df, col_ts, frequencies, k) ==
    IF k > Len(frequencies) THEN df
    ELSE LET ts      == ColumnOf(df, col_ts)
             withSin == SetColumn(df, SinName(k - 1),
                           [r \in DOMAIN ts |-> Sin(frequencies[k], ts[r])])
             ts2     == ColumnOf(withSin, col_ts)
             withCos == SetColumn(withSin, CosName(k - 1),
                           [r \in DOMAIN ts2 |-> Cos(frequencies[k], ts2[r])])
         IN  SeasLoop(withCos, col_ts, frequencies, k + 1)

SeasOutcome(st, tbl, e) == [status |-> st, table |-> tbl, exc |-> e]

\* The outcome of calc_seas(dataframe, col_ts, frequency) on the copy df_,
\* with the default already filled in.
\*  - a str is wrapped in a list, and multiplying it by a float raises;
\*  - anything else is iterated as it is: a float cannot be iterated;
\*  - a table without the column col_ts raises at the first frequency.
SeasOnCopy(df_, col_ts, frequency) ==
    CASE frequency.kind = "str"   -> SeasOutcome("raised", <<>>, "TypeError")
      [] frequency.kind = "float" -> SeasOutcome("raised", <<>>, "TypeError")
      [] frequency.kind = "list"  ->
            IF frequency.val # <<>> /\ ~HasColumn(df_, col_ts)
            THEN SeasOutcome("raised", <<>>, "KeyError")
            ELSE SeasOutcome("returned",
                             SeasLoop(df_, col_ts, frequency.val, 1), "")

\* calc_seas: what the call produces (out) and the table passed in as the
\* caller finds it afterwards (arg).
CalcSeas_InPlace(dataframe, col_ts, frequency) ==
    LET out == SeasOnCopy(dataframe, col_ts,
                   IF frequency = Omitted THEN DefaultFrequency ELSE frequency)
    IN  [arg |-> IF out.status = "returned" THEN out.table ELSE dataframe,
         out |-> out]
CalcSeas(dataframe, col_ts, frequency) ==
    [arg |-> dataframe,
     out |-> SeasOnCopy(dataframe, col_ts,
                 IF frequency = Omitted THEN DefaultFrequency ELSE frequency)]

FreqVals == {Frac(1, 1), Frac(1, 4), Frac(1, 12)}
FrequencyArgs ==
    {Omitted, Str} \cup {Float(f) : f \in FreqVals}
        \cup {List(fs) : fs \in SeqsUpTo(FreqVals, 0, MaxFreqs)}

\* Tables the first call is given: a time step per row, with or without
\* an observation column.
SeasTables ==
    { <<Column("timestep", <<0, 1>>)>>,
      <<Column("timestep", <<1, 2>>), Column("mean_temp", <<40, 43>>)>>,
      <<Column("mean_temp", <<40, 43>>), Column("timestep", <<2, 5>>)>> }

\* A call of calc_seas with the default col_ts; the first call is given
\* the caller's table, a later one the table the call before returned.
CalcSeasCall ==
    /\ Len(cs_result) < MaxCalls
    /\ cs_result # <<>> => cs_result[Len(cs_result)].status = "returned"
    /\ \E frequency \in FrequencyArgs :
         LET given == IF cs_result = <<>> THEN cs_dataframe
                      ELSE cs_result[Len(cs_result)].table
             r     == CalcSeas(given, "timestep", frequency)
         IN  /\ cs_given' = Append(cs_given, given)
             /\ cs_after' = Append(cs_after, r.arg)
             /\ cs_frequency' = Append(cs_frequency, frequency)
             /\ cs_result' = Append(cs_result, r.out)
    /\ UNCHANGED <<cs_dataframe, st_vars, ct_vars, rm_vars>>

CsInit ==
    /\ cs_dataframe \in SeasTables
    /\ cs_given = <<>>
    /\ cs_after = <<>>
    /\ cs_frequency = <<>>
    /\ cs_result = <<>>

StIdle == st_series = <<>> /\ st_window = 0 /\ st_qcd = NaN /\ st_trace = <<>>
            /\ st_done = FALSE
CtIdle == ct_dataframe = <<>> /\ ct_series = <<>> /\ ct_result = <<>>
RmIdle == rm_years = 0 /\ rm_window = 0
CsIdle == cs_dataframe = <<>> /\ cs_given = <<>> /\ cs_after = <<>>
            /\ cs_frequency = <<>> /\ cs_result = <<>>

InitStationarity == StInit /\ CtIdle /\ RmIdle /\ CsIdle
NextStationarity == TestStationarity
SpecStationarity == InitStationarity /\ [][NextStationarity]_vars

InitCleanTemp == StIdle /\ CtInit /\ RmIdle /\ CsIdle
NextCleanTemp == CleanTempCall
SpecCleanTemp == InitCleanTemp /\ [][NextCleanTemp]_vars

InitRolling == StIdle /\ CtIdle /\ RmInit /\ CsIdle
NextRolling == RollingMeanPlot
SpecRolling == InitRolling /\ [][NextRolling]_vars

InitSeas == StIdle /\ CtIdle /\ RmIdle /\ CsInit
NextSeas == CalcSeasCall
SpecSeas == InitSeas /\ [][NextSeas]_vars

---------------------------------------------------------------------------
(* Properties of test_stationarity *)

HeteroText   == "Non-stationary: heteroscedastic (qcd = {})"
PValuesText  == "p-values: {} (ADF), {} (KPSS)"
QcdText      == "Quartile coefficient of dispersion (QCD): {}"
VerdictTexts == {"Stationary or seasonal-stationary", "Difference-stationary",
                 "Trend-stationary", "Non-stationary; no robust conclusions"}

\* Positions of the trace holding a given kind of entry.
StCallsOf(fn)   == {i \in DOMAIN st_trace :
                      st_trace[i].ev = "call" /\ st_trace[i].what = fn}
StPrintsOf(txt) == {i \in DOMAIN st_trace :
                      st_trace[i].ev = "print" /\ st_trace[i].what = txt}
StVerdictLines  == {i \in DOMAIN st_trace :
                      st_trace[i].ev = "print" /\ st_trace[i].what \in VerdictTexts}

\* The QCD the call computed, and the p-values the call printed.
StQcd == st_qcd
StP   == LET i == CHOOSE i \in StPrintsOf(PValuesText) : TRUE
         IN  <<st_trace[i].args[1].v, st_trace[i].args[2].v>>

\* The decision table of the specification, thresholds in millionths.
TableVerdict(pa, pb) ==
    CASE pa < 10000 /\ pb >= 50000   -> "Stationary or seasonal-stationary"
      [] ~(pa < 10000 /\ pb >= 50000) /\ pa >= 100000 /\ pb < 50000
                                     -> "Difference-stationary"
      [] ~(pa < 10000 /\ pb >= 50000) /\ ~(pa >= 100000 /\ pb < 50000)
            /\ pa < 100000 /\ pb < 50000
                                     -> "Trend-stationary"
      [] OTHER                       -> "Non-stationary; no robust conclusions"

\* C1: whenever the QCD is below 0.50, test_stationarity prints exactly one
\* verdict, and it is the one the decision table (in order, first match
\* wins) gives for the p-values of the call, boundary values included.
C1_DecisionTable ==
    (st_done /\ ~StQcd.nan /\ StQcd.v < 500000) =>
        /\ Cardinality(StPrintsOf(PValuesText)) = 1
        /\ Cardinality(StVerdictLines) = 1
        /\ \A i \in StVerdictLines :
             st_trace[i].what = TableVerdict(StP[1], StP[2])

\* A call with QCD < 0.50 whose p-values sit on the boundaries p_A = 0.01
\* and p_B = 0.05, classified "no robust conclusions".
C1_Witness ==
    /\ st_done /\ ~StQcd.nan /\ StQcd.v < 500000
    /\ StPrintsOf(PValuesText) # {}
    /\ StP = <<10000, 50000>>
    /\ \E i \in StVerdictLines :
         st_trace[i].what = "Non-stationary; no robust conclusions"

\* C2: the QCD is computed first; with QCD >= 0.50 (0.50 included) the call
\* prints the heteroscedasticity line and nothing else, and p_values is
\* never called; with QCD < 0.50 p_values is called exactly once and the
\* p-values and the QCD are printed before the verdict.
C2_QcdGate ==
    st_done =>
        /\ st_trace # <<>> /\ st_trace[1] = Call("qcd_variance")
        /\ Cardinality(StCallsOf("qcd_variance")) = 1
        /\ (~StQcd.nan /\ StQcd.v >= 500000) =>
              /\ StCallsOf("p_values") = {}
              /\ StVerdictLines = {}
              /\ StPrintsOf(PValuesText) = {}
              /\ Cardinality(StPrintsOf(HeteroText)) = 1
              /\ st_trace[Len(st_trace)] = Printed(HeteroText, <<StQcd>>)
        /\ (~StQcd.nan /\ StQcd.v < 500000) =>
              /\ Cardinality(StCallsOf("p_values")) = 1
              /\ StPrintsOf(HeteroText) = {}
              /\ Cardinality(StPrintsOf(PValuesText)) = 1
              /\ Cardinality(StPrintsOf(QcdText)) = 1
              /\ \A q \in StPrintsOf(QcdText) : st_trace[q].args = <<StQcd>>
              /\ \A c \in StCallsOf("p_values") :
                 \A i \in StPrintsOf(PValuesText) \cup StPrintsOf(QcdText) :
                 \A v \in StVerdictLines : c < i /\ i < v

\* A call whose QCD is exactly 0.50 and that stopped after the
\* heteroscedasticity line.
C2_Witness ==
    /\ st_done
    /\ StQcd = Num(500000)
    /\ StPrintsOf(HeteroText) # {}
    /\ StCallsOf("p_values") = {}

\* The three explicit rules, and the verdict each one prints.
RuleHolds(r, pa, pb) ==
    CASE r = 1 -> Rule1(pa, pb)
      [] r = 2 -> Rule2(pa, pb)
      [] r = 3 -> Rule3(pa, pb)
RuleVerdict(r) ==
    CASE r = 1 -> "Stationary or seasonal-stationary"
      [] r = 2 -> "Difference-stationary"
      [] r = 3 -> "Trend-stationary"

\* The verdict when the rules are tried in the order given, first match wins.
FirstMatch(order, pa, pb) ==
    IF \E k \in 1..3 : RuleHolds(order[k], pa, pb)
    THEN LET k == CHOOSE k \in 1..3 :
                     /\ RuleHolds(order[k], pa, pb)
                     /\ \A j \in 1..(k - 1) : ~RuleHolds(order[j], pa, pb)
         IN  RuleVerdict(order[k])
    ELSE "Non-stationary; no robust conclusions"

Orders == {o \in [1..3 -> 1..3] : \A i, j \in 1..3 : i # j => o[i] # o[j]}

\* C3: for the p-values of every classified call at most one of the three
\* rule conditions holds, the "otherwise" verdict is printed exactly when
\* none holds, and trying the rules in any order gives the printed verdict.
C3_RegionsDisjoint ==
    (st_done /\ StPrintsOf(PValuesText) # {}) =>
        /\ Cardinality({r \in 1..3 : RuleHolds(r, StP[1], StP[2])}) <= 1
        /\ \A i \in StVerdictLines :
             /\ (st_trace[i].what = "Non-stationary; no robust conclusions")
                  <=> (\A r \in 1..3 : ~RuleHolds(r, StP[1], StP[2]))
             /\ \A o \in Orders :
                  FirstMatch(o, StP[1], StP[2]) = st_trace[i].what

\* A classified call in the region of the third rule.
C3_Witness ==
    /\ st_done /\ StPrintsOf(PValuesText) # {}
    /\ StP = <<30000, 20000>>
    /\ \E i \in StVerdictLines : st_trace[i].what = "Trend-stationary"

---------------------------------------------------------------------------
(* Properties of clean_temp *)

\* Rows of the table dated some offset in {-5..-1, 1..5} years from the
\* record, and those among them whose mean_temp is a number.
CtWindowRows ==
    {i \in DOMAIN ct_dataframe :
        \E k \in 1..5 : \/ ct_dataframe[i].date = AddYears(ct_series.date, k)
                        \/ ct_dataframe[i].date = AddYears(ct_series.date, 0 - k)}
CtWindowValues == {i \in CtWindowRows : ~ct_dataframe[i].mean_temp.nan}

RECURSIVE CtSum(_)
CtSum(idx) ==
    IF idx = {} THEN 0
    ELSE LET i == CHOOSE i \in idx : TRUE
         IN  ct_dataframe[i].mean_temp.v + CtSum(idx \ {i})

CtCalled == ct_result.status # "none"

\* C4: for a record with quality 9 the result is the mean of mean_temp
\* over the rows dated in the reference window (offset 0 excluded, rows
\* taken whatever their own quality; pandas' mean skips rows without a
\* value), truncated toward zero to a whole number of degrees; it is 10
\* when all those rows hold 10.
C4_ImputedMean ==
    (CtCalled /\ ct_series.quality = 9 /\ CtWindowValues # {}) =>
        LET total == CtSum(CtWindowValues)
            den   == 4 * Cardinality(CtWindowValues)
            r     == ct_result.value.v
        IN  /\ ct_result.status = "returned"
            /\ ~ct_result.value.nan
            /\ r % 4 = 0
            /\ total >= 0 => (r \div 4) * den <= total /\ total < (r \div 4 + 1) * den
            /\ total < 0  => (r \div 4 - 1) * den < total /\ total <= (r \div 4) * den
            /\ (\A i \in CtWindowValues : ct_dataframe[i].mean_temp = Num(40))
                  => ct_result.value = Num(40)

\* A record with quality 9 whose table holds a row dated in the window
\* with a negative value (-1.5, truncated to -1) and a row on the record's
\* own date that does not count.
C4_Witness ==
    /\ CtCalled /\ ct_series.quality = 9
    /\ \E i \in DOMAIN ct_dataframe : ct_dataframe[i].date = ct_series.date
                                       /\ ct_dataframe[i].mean_temp = Num(43)
    /\ \E i \in CtWindowValues : ct_dataframe[i].mean_temp = Num(0 - 6)
    /\ Cardinality(CtWindowValues) = 1
    /\ ct_result = Outcome("returned", Num(0 - 4), "")

\* C5: for a record whose quality is not 9 the result is the record's own
\* mean_temp unchanged, whatever the table holds.
C5_Unchanged ==
    (CtCalled /\ ct_series.quality # 9) =>
        ct_result = Outcome("returned", ct_series.mean_temp, "")

\* A record with a quality other than 0 and 9 and the value 10.75, and an
\* empty table: 10.75 comes back.
C5_Witness ==
    /\ CtCalled /\ ct_series.quality = 1 /\ ct_dataframe = <<>>
    /\ ct_series.mean_temp = Num(43)
    /\ ct_result.value = Num(43)

\* C6: for a record with quality 9, the call raises an error and returns
\* nothing when no row of the table is dated in the reference window, and
\* it returns a value when at least one row dated in the window holds a
\* mean_temp.
C6_EmptyWindowFails ==
    (CtCalled /\ ct_series.quality = 9) =>
        /\ CtWindowRows = {} => ct_result = Outcome("raised", NaN, "ValueError")
        /\ CtWindowValues # {} => ct_result.status = "returned"

\* A record with quality 9 and a table that is not empty but has no row in
\* the window (one row is on the record's own date): the call raises.
C6_Witness ==
    /\ CtCalled /\ ct_series.quality = 9
    /\ \E i \in DOMAIN ct_dataframe :
          ct_dataframe[i].date = ct_series.date /\ ~ct_dataframe[i].mean_temp.nan
    /\ CtWindowRows = {}
    /\ ct_result.status = "raised"

---------------------------------------------------------------------------
(* Properties of calc_seas *)

\* The sine and cosine columns of frequency f over the time steps of tbl.
SinColumn(tbl, f) ==
    [r \in DOMAIN ColumnOf(tbl, "timestep") |-> Sin(f, ColumnOf(tbl, "timestep")[r])]
CosColumn(tbl, f) ==
    [r \in DOMAIN ColumnOf(tbl, "timestep") |-> Cos(f, ColumnOf(tbl, "timestep")[r])]

\* <<sin_0, cos_0, ..., sin_(n-1), cos_(n-1)>>
SeasNames(n) ==
    [j \in 1..(2 * n) |-> IF j % 2 = 1 THEN "sin_" \o Digits[(j + 1) \div 2]
                          ELSE "cos_" \o Digits[j \div 2]]

\* C7: calc_seas called without a frequency, or with a single scalar
\* frequency, succeeds and returns the table with exactly the two columns
\* sin_0 and cos_0 appended.
C7_ScalarFrequencyAccepted ==
    (cs_result # <<>> /\ cs_frequency[1].kind \in {"omitted", "float"}) =>
        /\ cs_result[1].status = "returned"
        /\ Names(cs_result[1].table) = Names(cs_given[1]) \o <<"sin_0", "cos_0">>

\* Two calls in sequence with lists of frequencies that share no value,
\* both returning.
CsTwoDisjointLists ==
    /\ Len(cs_result) >= 2
    /\ cs_frequency[1].kind = "list" /\ cs_frequency[2].kind = "list"
    /\ cs_result[1].status = "returned" /\ cs_result[2].status = "returned"
    /\ Range(cs_frequency[1].val) \cap Range(cs_frequency[2].val) = {}

CsTwoPerFrequency(k) ==
    LET n == Len(cs_frequency[k].val)
    IN  /\ cs_result[k].status = "returned"
        /\ Len(cs_result[k].table) = Len(cs_given[k]) + 2 * n
        /\ Names(cs_result[k].table) = Names(cs_given[k]) \o SeasNames(n)
        /\ \A c \in DOMAIN cs_given[k] :
              /\ HasColumn(cs_result[k].table, cs_given[k][c].name)
              /\ ColumnOf(cs_result[k].table, cs_given[k][c].name)
                   = cs_given[k][c].values
        /\ cs_after[k] = cs_given[k]

---------------------------------------------------------------------------
(* Properties of rolling_mean_plot *)

\* C10 as stated: the window is years * 365.24 rounded to the nearest
\* integer (1096 for 3 years).
C10_WindowRounded ==
    rm_window # 0 =>
        /\ 100 * rm_window - 50 <= rm_years * 36524
        /\ rm_years * 36524 < 100 * rm_window + 50

\* C10, amended: the window is years * 365.24 truncated to an integer
\* (1095 for 3 years).
C10_WindowTruncated ==
    rm_window # 0 =>
        /\ 100 * rm_window <= rm_years * 36524
        /\ rm_years * 36524 < 100 * (rm_window + 1)

\* The call for 3 years: 1095 observations.
C10_Witness == rm_years = 3 /\ rm_window = 1095

===========================================================================
